---- MODULE Spec2Model ----
(***************************************************************************)
(* PT100 mesh datalogger host tools: the CSV loaders, the time-source       *)
(* resolution, the minute-bucket trimmers and the GUI handlers of           *)
(* host_tools/pt100_csv_plotter.py ("plotter") and                         *)
(* host_tools/pt100_csv_plotter_pdf.py ("pdf").                            *)
(*                                                                         *)
(* Times are wall-clock seconds (integers).  A CSV cell is a record        *)
(* [k, v]: k = "na" (empty cell / column absent after concat), "text" (a   *)
(* string that is neither a number nor a date), "num" (a number v), "iso"  *)
(* (an ISO date-time string for second v without a UTC offset), "isoz"     *)
(* (the same with an explicit offset such as -06:00), "numtext" (a string  *)
(* that reads as the number v, such as "1.0").                             *)
(***************************************************************************)
EXTENDS Integers, Sequences, FiniteSets, TLC

VARIABLES
    app,              \* which tool is running: "plotter" or "pdf"
    dialog,           \* what the file dialog returns next (<<>> = cancelled)
    start_time_text,  \* PlotterApp.start_time_text
    end_time_text,    \* PlotterApp.end_time_text
    selected_files,   \* PlotterApp.selected_files
    loaded,           \* PlotterApp.loaded: <<>> is None, <<log>> a LoadedLog
    file_label,       \* PlotterApp.file_label text: the plotter shows how many
                      \* files (n), the pdf tool their names (files)
    range_label,      \* PlotterApp.range_label text (plotter only)
    buttons,          \* state of plot_btn / save_trim_btn / pdf_btn
    last,             \* what the last handler did (message box, output)
    series,           \* the column handed to _compute_basic_stats
    stats,            \* what _compute_basic_stats returned (<<>> = not called)
    serial_port,      \* mesh_ingest: [lines, pos], what readline() returns
                      \* call after call and how many calls have returned
    temp_samples,     \* mesh_ingest: rows of the SQLite table temp_samples
    clock,            \* mesh_ingest: the host's time.time(), whole seconds
    stderr,           \* mesh_ingest: the "parse/store error" reports printed
                      \* and the traceback of an exception that left main
    listening         \* mesh_ingest: main is in its while loop

\* The GUI of either tool.
gui == <<app, dialog, start_time_text, end_time_text, selected_files,
         loaded, file_label, range_label, buttons, last>>

\* The statistics helper and the ingest process, which the GUI handlers
\* never touch.
others == <<series, stats, serial_port, temp_samples, clock, stderr, listening>>

\* mesh_ingest has not been started.
IngestIdle ==
    /\ serial_port = [lines |-> <<>>, pos |-> 0]
    /\ temp_samples = <<>>
    /\ clock = 0
    /\ stderr = <<>>
    /\ listening = FALSE

\* Neither the statistics helper nor the ingest process has run.
OthersIdle ==
    /\ series = <<>>
    /\ stats = <<>>
    /\ IngestIdle

vars == <<app, dialog, start_time_text, end_time_text, selected_files,
          loaded, file_label, range_label, buttons, last,
          series, stats, serial_port, temp_samples, clock, stderr, listening>>

(***************************************************************************)
(* Bounds of the model.                                                    *)
(***************************************************************************)
MaxFiles == 2        \* files in one selection
MaxLoadRows == 2     \* rows of one selection (all files together), loader runs
MaxTrimRows == 3     \* rows of the dataset, trimmer runs
MaxMinute == 3       \* minute buckets 1..MaxMinute may hold data
MaxLines == 3        \* lines the serial port delivers to mesh_ingest
MaxClock == 2        \* seconds the host's clock runs on during an ingest run
MaxSeries == 4       \* cells of a column handed to _compute_basic_stats
MaxSortRows == 3     \* rows of one selection (all files together), sorting runs

SecondsPerMinute == 60
SampleEpoch == 1700000000   \* the "ts" of the record in the module's docstring
Milli == 1000        \* thousandths in a unit: the ".3f" of the report

Apps == {"plotter", "pdf"}

(***************************************************************************)
(* Cells and timestamps.                                                   *)
(***************************************************************************)
NaT == 0 - 1         \* pandas NaT / NaN: no value

NA == [k |-> "na", v |-> 0]
BadText == [k |-> "text", v |-> 0]
Num(n) == [k |-> "num", v |-> n]
NumText(n) == [k |-> "numtext", v |-> n]
IsoStr(kind, t) == [k |-> kind, v |-> t]

IsoKinds == {"iso", "isoz"}
NumKinds == {"num", "numtext"}

\* pd.to_datetime(column, errors="coerce"): a date-time string parses, anything
\* else becomes NaT.
ToDatetime(cell) == IF cell.k \in IsoKinds THEN cell.v ELSE NaT

\* True when the parsed value is timezone-aware (the string carried an offset).
IsTzAware(cell) == cell.k = "isoz"

\* pd.to_numeric(column, errors="coerce"): a number stays, anything else is NaN.
ToNumeric(cell) == IF cell.k \in NumKinds THEN cell.v ELSE NaT

FloorMinute(t) == t - (t % SecondsPerMinute)

Range(s) == {s[i] : i \in DOMAIN s}

Some(x) == <<x>>
None == <<>>

(***************************************************************************)
(* Source files.  A file is [cols, rows]: the timestamp columns its header *)
(* names, and its rows [iso, epoch, tcol] (tcol is a column literally      *)
(* named "__time", as a CSV written by "Save Trimmed CSV" of the plotter   *)
(* has), and seq (the sequence number, NA where the file has none).        *)
(***************************************************************************)
\* pd.read_csv(path): the rows of file number i, a cell of a column the file
\* does not have is absent.
ReadCsv(f, i) ==
    [cols |-> f.cols,
     rows |-> [j \in 1..Len(f.rows) |->
                 [src |-> i, row |-> j,
                  seq |-> IF "seq" \in f.cols THEN f.rows[j].seq ELSE NA,
                  iso |-> IF "iso8601_local" \in f.cols THEN f.rows[j].iso ELSE NA,
                  epoch |-> IF "epoch_utc" \in f.cols THEN f.rows[j].epoch ELSE NA,
                  tcol |-> IF "__time" \in f.cols THEN f.rows[j].tcol ELSE NA,
                  time |-> NaT]]]

RECURSIVE ConcatFrom(_, _)
\* pd.concat(dataframes, ignore_index=True): union of the columns, rows in
\* file order, NaN where a file lacks a column.
ConcatFrom(files, i) ==
    IF i > Len(files) THEN [cols |-> {}, rows |-> <<>>]
    ELSE LET head == ReadCsv(files[i], i)
             rest == ConcatFrom(files, i + 1)
         IN [cols |-> head.cols \cup rest.cols, rows |-> head.rows \o rest.rows]

Concat(files) == ConcatFrom(files, 1)

Count(s, P(_)) == Cardinality({i \in DOMAIN s : P(s[i])})

(***************************************************************************)
(* Sorting (DataFrame.sort_values).                                        *)
(***************************************************************************)
\* NaT sorts last (na_position="last").
TimeBefore(a, b) == a.time # NaT /\ (b.time = NaT \/ a.time < b.time)

SeqBefore(a, b) == a.seq.k = "num" /\ (b.seq.k # "num" \/ a.seq.v < b.seq.v)

\* The order of sort_values([time, seq]).
TimeSeqBefore(a, b) ==
    TimeBefore(a, b) \/ (~TimeBefore(b, a) /\ SeqBefore(a, b))

RECURSIVE InsertByTimeSeq(_, _)
InsertByTimeSeq(sorted, r) ==
    IF sorted = <<>> THEN <<r>>
    ELSE IF TimeSeqBefore(r, Head(sorted)) THEN <<r>> \o sorted
    ELSE <<Head(sorted)>> \o InsertByTimeSeq(Tail(sorted), r)

RECURSIVE SortByTimeSeq(_)
\* df.sort_values([time_column, "seq"]): sorting by several columns is a
\* stable (lexsort) sort: rows with equal keys keep their input order.
SortByTimeSeq(rows) ==
    IF rows = <<>> THEN <<>>
    ELSE InsertByTimeSeq(SortByTimeSeq(SubSeq(rows, 1, Len(rows) - 1)), rows[Len(rows)])

\* Every place r can take in the sequence s, ordered by time, so that the
\* result is ordered by time too.
InsertsByTime(s, r) ==
    {SubSeq(s, 1, k) \o <<r>> \o SubSeq(s, k + 1, Len(s)) : k \in
        {k \in 0..Len(s) : /\ \A i \in 1..k : ~TimeBefore(r, s[i])
                           /\ \A i \in (k + 1)..Len(s) : ~TimeBefore(s[i], r)}}

RECURSIVE SortsByTime(_)
\* df.sort_values(by=time_column): every outcome of a sort by one column,
\* which is not a stable sort (kind="quicksort"): ordered by time, NaT last,
\* rows with equal times in any order.
SortsByTime(rows) ==
    IF rows = <<>> THEN {<<>>}
    ELSE UNION {InsertsByTime(s, rows[Len(rows)]) :
                  s \in SortsByTime(SubSeq(rows, 1, Len(rows) - 1))}

(***************************************************************************)
(* pt100_csv_plotter.py: loader.                                           *)
(***************************************************************************)
ExpectedColumns == {"seq", "epoch_utc", "iso8601_local"}

IsoUsable(row) == ToDatetime(row.iso) # NaT

\* epoch_series.where(epoch_series > 0): values <= 0 and NaN become NaT.
EpochTime(row) == IF ToNumeric(row.epoch) > 0 THEN ToNumeric(row.epoch) ELSE NaT

EpochUsable(row) == EpochTime(row) # NaT

FirstWhere(rows, P(_)) == rows[CHOOSE i \in DOMAIN rows :
                                 P(rows[i]) /\ \A j \in 1..(i - 1) : ~P(rows[j])]

SetTime(rows, T(_)) == [i \in DOMAIN rows |-> [rows[i] EXCEPT !.time = T(rows[i])]]

\* A wrong variant of IsoTime (bases mixed row by row: a row without a local
\* time takes its epoch); property C7 must tell it from IsoTime.
IsoTimeElseEpoch(row) ==
    IF ToDatetime(row.iso) # NaT THEN ToDatetime(row.iso) ELSE EpochTime(row)

IsoTime(row) == ToDatetime(row.iso)

\* _pick_time_source of the plotter: writes the column df["__time"] in place.
PickTimeSourceA(df) ==
    IF "iso8601_local" \in df.cols /\ \E i \in DOMAIN df.rows : IsoUsable(df.rows[i])
    THEN [ok |-> TRUE,
          df |-> [cols |-> df.cols \cup {"__time"}, rows |-> SetTime(df.rows, IsoTime)],
          time_is_local |-> TRUE,
          tzinfo |-> IF IsTzAware(FirstWhere(df.rows, IsoUsable).iso) THEN "fixed" ELSE "none"]
    ELSE IF "epoch_utc" \in df.cols /\ \E i \in DOMAIN df.rows : EpochUsable(df.rows[i])
    THEN [ok |-> TRUE,
          df |-> [cols |-> df.cols \cup {"__time"}, rows |-> SetTime(df.rows, EpochTime)],
          time_is_local |-> FALSE,
          tzinfo |-> "utc"]
    ELSE [ok |-> FALSE, df |-> df, time_is_local |-> FALSE, tzinfo |-> "none"]

HasTime(row) == row.time # NaT

Failure(kind) == [ok |-> FALSE, err |-> kind, log |-> None]

\* _load_pt100_csv_files
LoadPt100CsvFiles(files) ==
    IF files = <<>> THEN Failure("no_files")
    ELSE LET df_all == Concat(files)
             normal == [cols |-> df_all.cols \cup ExpectedColumns, rows |-> df_all.rows]
             pick == PickTimeSourceA(normal)
         IN IF ~pick.ok THEN Failure("no_usable_timestamp")
            ELSE [ok |-> TRUE, err |-> "none",
                  log |-> Some(
                    [dataframe |-> SortByTimeSeq(SelectSeq(pick.df.rows, HasTime)),
                     columns |-> pick.df.cols,
                     time_column |-> "__time",
                     time_is_local |-> pick.time_is_local,
                     tzinfo |-> pick.tzinfo,
                     source_files |-> Len(files),
                     dropped_rows_no_time |-> Count(pick.df.rows, LAMBDA r : ~HasTime(r))])]

(***************************************************************************)
(* pt100_csv_plotter_pdf.py: loader.                                       *)
(***************************************************************************)
\* _pick_time_source of the pdf tool: it filters and fills a COPY of the frame
\* (df = df.loc[usable].copy()), so the caller's frame is left as it was; the
\* caller gets the column name, the tzinfo and the count of unusable rows.
PickTimeSourceB(df) ==
    IF "iso8601_local" \in df.cols /\ \E i \in DOMAIN df.rows : IsoUsable(df.rows[i])
    THEN [ok |-> TRUE,
          tzinfo |-> IF IsTzAware(FirstWhere(df.rows, IsoUsable).iso) THEN "fixed" ELSE "none",
          dropped |-> Count(df.rows, LAMBDA r : ~IsoUsable(r))]
    ELSE IF "epoch_utc" \in df.cols /\ \E i \in DOMAIN df.rows : EpochUsable(df.rows[i])
    THEN [ok |-> TRUE,
          tzinfo |-> "utc",
          dropped |-> Count(df.rows, LAMBDA r : ~EpochUsable(r))]
    ELSE [ok |-> FALSE, tzinfo |-> "none", dropped |-> 0]

TcolTime(row) == ToDatetime(row.tcol)

\* _load_csv_files: every result the call can have (the sort by one column
\* is not a stable sort).  combined[time_column] reads the caller's frame: a
\* KeyError unless the files themselves have a "__time" column.
LoadCsvFiles(files) ==
    IF files = <<>> THEN {Failure("no_files")}
    ELSE LET combined == Concat(files)
             pick == PickTimeSourceB(combined)
         IN IF ~pick.ok THEN {Failure("no_usable_timestamp")}
            ELSE IF "__time" \notin combined.cols THEN {Failure("key_error")}
            ELSE {[ok |-> TRUE, err |-> "none",
                   log |-> Some(
                     [dataframe |-> sorted,
                      columns |-> combined.cols \cup {"__source_file"},
                      time_column |-> "__time",
                      tzinfo |-> pick.tzinfo,
                      source_files |-> Len(files),
                      dropped_no_time_rows |-> pick.dropped])] :
                  sorted \in SortsByTime(SetTime(combined.rows, TcolTime))}

LoadResults(a, files) ==
    IF a = "plotter" THEN {LoadPt100CsvFiles(files)} ELSE LoadCsvFiles(files)

Dropped(a, log) ==
    IF a = "plotter" THEN log.dropped_rows_no_time ELSE log.dropped_no_time_rows

\* time_series.min() and .max(): NaT is skipped.
MinTime(rows) == CHOOSE t \in {rows[i].time : i \in DOMAIN rows} \ {NaT} :
                    \A i \in DOMAIN rows : rows[i].time = NaT \/ t <= rows[i].time
MaxTime(rows) == CHOOSE t \in {rows[i].time : i \in DOMAIN rows} \ {NaT} :
                    \A i \in DOMAIN rows : rows[i].time = NaT \/ t >= rows[i].time

(***************************************************************************)
(* User time text.  A text is a record of what was typed: kind "empty"     *)
(* (nothing), "blank" (white space only), "garbage" (not a date-time), or  *)
(* "time": a date-time of the minute `minute`, its date written with dsep  *)
(* ("-" or "/"), date and time separated by tsep (" " or "T"), followed by *)
(* a seconds field (secs = <<s>>) or not (secs = <<>>).                    *)
(***************************************************************************)
Text(kind) == [kind |-> kind, minute |-> 0, dsep |-> "-", tsep |-> " ", secs |-> <<>>]

TimeText(m, dsep, tsep, secs) ==
    [kind |-> "time", minute |-> m, dsep |-> dsep, tsep |-> tsep, secs |-> secs]

\* (text or "").strip() is empty
Stripped(text) == text.kind \in {"empty", "blank"}

Parsed(t) == [raised |-> FALSE, val |-> <<t>>]
ParsedNone == [raised |-> FALSE, val |-> <<>>]
ParseRaised == [raised |-> TRUE, val |-> <<>>]

WallTime(text) ==
    text.minute * SecondsPerMinute + (IF text.secs = <<>> THEN 0 ELSE text.secs[1])

\* _safe_parse_user_time (plotter): "T" becomes " ", "/" becomes "-", then
\* datetime.fromisoformat, seconds optional; None when the text is empty AND
\* when it does not parse.
SafeParseUserTime(text) ==
    IF Stripped(text) THEN ParsedNone
    ELSE IF text.kind = "time" THEN Parsed(WallTime(text))
    ELSE ParsedNone

\* _parse_user_time (pdf): strptime with "%Y-%m-%d %H:%M", then with
\* "%Y-%m-%dT%H:%M"; raises ValueError when neither matches.
ParseUserTime(text) ==
    IF Stripped(text) THEN ParsedNone
    ELSE IF text.kind = "time" /\ text.dsep = "-" /\ text.secs = <<>>
    THEN Parsed(WallTime(text))
    ELSE ParseRaised

(***************************************************************************)
(* Minute buckets and the nearest-minute lookups.                          *)
(***************************************************************************)
RECURSIVE SortedSeqOf(_)
\* The members of a set of times in ascending order, NaT last.
SortedSeqOf(S) ==
    IF S = {} THEN <<>>
    ELSE LET m == IF S = {NaT} THEN NaT
                  ELSE CHOOSE x \in S \ {NaT} : \A y \in S \ {NaT} : x <= y
         IN <<m>> \o SortedSeqOf(S \ {m})

MinuteOf(row) == IF row.time = NaT THEN NaT ELSE FloorMinute(row.time)

\* A wrong variant of Minutes (every minute from the first to the last one
\* of the rows, with data or not); property C1 must tell it from Minutes.
MinutesSpanned(rows) ==
    LET present == {MinuteOf(rows[i]) : i \in DOMAIN rows} \ {NaT}
    IN {m \in UNION {p[1]..p[2] : p \in present \X present} : m % SecondsPerMinute = 0}

\* The distinct minutes of the time column, NaT among them if a row has none.
Minutes(rows) == {MinuteOf(rows[i]) : i \in DOMAIN rows}

Abs(x) == IF x < 0 THEN 0 - x ELSE x

\* nearest_minute_string (plotter): deltas.idxmin() is the FIRST entry of the
\* ascending valid_minutes with the least distance.
NearestMinuteA(valid_minutes, target) ==
    valid_minutes[CHOOSE i \in DOMAIN valid_minutes :
        /\ \A j \in DOMAIN valid_minutes :
              Abs(valid_minutes[i] - target) <= Abs(valid_minutes[j] - target)
        /\ \A j \in 1..(i - 1) :
              Abs(valid_minutes[j] - target) > Abs(valid_minutes[i] - target)]

\* _nearest_minute_string (pdf): Index.get_indexer([t], method="nearest") on
\* an ascending index: pad gives the last entry <= t, backfill the first
\* entry >= t; the pad entry is taken only if it is STRICTLY nearer (or there
\* is no backfill entry), so a tie goes to the later entry.
NearestMinuteB(minutes_index, target) ==
    LET left == {i \in DOMAIN minutes_index : minutes_index[i] <= target}
        right == {i \in DOMAIN minutes_index : minutes_index[i] >= target}
        pad == CHOOSE i \in left : \A j \in left : j <= i
        backfill == CHOOSE i \in right : \A j \in right : i <= j
    IN IF right = {} THEN minutes_index[pad]
       ELSE IF left = {} THEN minutes_index[backfill]
       ELSE IF target - minutes_index[pad] < minutes_index[backfill] - target
            THEN minutes_index[pad]
            ELSE minutes_index[backfill]

(***************************************************************************)
(* The trimmers.  A result is [ok, err, rows, start, end, summary]; err is *)
(* the exception: its kind, the boundary it is about, and what its message *)
(* tells: range = <<earliest, latest>> valid minute or <<>>, nearest =     *)
(* <<minute>> or <<>>.                                                     *)
(***************************************************************************)
NoErr == [kind |-> "none", side |-> "none", range |-> <<>>, nearest |-> <<>>]
Err(kind) == [kind |-> kind, side |-> "none", range |-> <<>>, nearest |-> <<>>]
NoSummary == [form |-> "none", start |-> <<>>, end |-> <<>>, count |-> <<>>]

Raise(err) ==
    [ok |-> FALSE, err |-> err, rows |-> <<>>, start |-> <<>>, end |-> <<>>,
     summary |-> NoSummary]

FloorOpt(v) == IF v = <<>> THEN <<>> ELSE <<FloorMinute(v[1])>>

\* The message of the plotter's "not present" ValueError: valid range and
\* nearest minute.
NotPresentA(side, valid_minutes, target) ==
    [kind |-> "not_present", side |-> side,
     range |-> <<valid_minutes[1], valid_minutes[Len(valid_minutes)]>>,
     nearest |-> <<NearestMinuteA(valid_minutes, target)>>]

\* summary of the plotter: built from the requested boundaries.
SummaryA(start_minute, end_minute) ==
    IF start_minute = <<>> /\ end_minute = <<>>
    THEN [form |-> "No trimming applied.", start |-> <<>>, end |-> <<>>, count |-> <<>>]
    ELSE [form |-> "Trimmed to: start= end=", start |-> start_minute,
          end |-> end_minute, count |-> <<>>]

\* A wrong variant of StartAfterEndA (start = end refused too); property C8
\* must tell it from StartAfterEndA.
StartNotBeforeEndA(start_minute, end_minute) == start_minute >= end_minute

\* start_minute > end_minute (plotter)
StartAfterEndA(start_minute, end_minute) == start_minute > end_minute

\* A wrong variant of KeepA (the end minute itself left out); property C4
\* must tell it from KeepA.
KeepBeforeEndMinuteA(r, start_minute, end_minute) ==
    /\ (start_minute # <<>> => r.time # NaT /\ r.time >= start_minute[1])
    /\ (end_minute # <<>> => r.time # NaT /\ r.time < end_minute[1])

\* The rows the plotter keeps: time_series >= start_minute, and
\* time_series < end_minute + timedelta(minutes=1).
KeepA(r, start_minute, end_minute) ==
    /\ (start_minute # <<>> => r.time # NaT /\ r.time >= start_minute[1])
    /\ (end_minute # <<>> => r.time # NaT /\ r.time < end_minute[1] + SecondsPerMinute)

\* _validate_and_trim_by_minute (plotter)
ValidateAndTrimA(df, start_text, end_text) ==
    LET start_minute == FloorOpt(SafeParseUserTime(start_text).val)
        end_minute == FloorOpt(SafeParseUserTime(end_text).val)
        valid_minutes == SortedSeqOf(Minutes(df) \ {NaT})
        valid_set == Range(valid_minutes)
    IN IF valid_minutes = <<>> THEN Raise(Err("no_valid_timestamps"))
       ELSE IF start_minute # <<>> /\ start_minute[1] \notin valid_set
       THEN Raise(NotPresentA("start", valid_minutes, start_minute[1]))
       ELSE IF end_minute # <<>> /\ end_minute[1] \notin valid_set
       THEN Raise(NotPresentA("end", valid_minutes, end_minute[1]))
       ELSE IF /\ start_minute # <<>> /\ end_minute # <<>>
               /\ StartAfterEndA(start_minute[1], end_minute[1])
       THEN Raise(Err("invalid_range"))
       ELSE [ok |-> TRUE, err |-> NoErr,
             rows |-> SelectSeq(df, LAMBDA r : KeepA(r, start_minute, end_minute)),
             start |-> start_minute,
             end |-> end_minute,
             summary |-> SummaryA(start_minute, end_minute)]

\* The pdf tool's "not in log minutes" ValueError: the nearest minute only;
\* the lookup itself raises when the index holds NaT (it is not monotonic).
NotPresentB(side, present_minutes, target) ==
    IF NaT \in Range(present_minutes) THEN Err("index_not_monotonic")
    ELSE [kind |-> "not_present", side |-> side, range |-> <<>>,
          nearest |-> <<NearestMinuteB(present_minutes, target)>>]

\* summary of the pdf tool: first and last time of the trimmed rows, to the
\* minute, and their number.
SummaryB(trimmed) ==
    [form |-> "start -> end (n rows)",
     start |-> <<FloorMinute(MinTime(trimmed))>>,
     end |-> <<FloorMinute(MaxTime(trimmed))>>,
     count |-> <<Len(trimmed)>>]

\* user_end < user_start (pdf)
EndBeforeStartB(user_start, user_end) == user_end < user_start

\* The rows the pdf tool keeps: minutes >= start_minute, minutes <= end_minute.
KeepB(r, start_minute, end_minute) ==
    /\ (start_minute # <<>> => MinuteOf(r) # NaT /\ MinuteOf(r) >= start_minute[1])
    /\ (end_minute # <<>> => MinuteOf(r) # NaT /\ MinuteOf(r) <= end_minute[1])

\* _validate_and_trim_by_minute (pdf)
ValidateAndTrimB(df, start_text, end_text) ==
    LET present_minutes == SortedSeqOf(Minutes(df))
        user_start == ParseUserTime(start_text)
        user_end == ParseUserTime(end_text)
        trimmed == SelectSeq(df, LAMBDA r : KeepB(r, user_start.val, user_end.val))
    IN IF \A i \in DOMAIN df : df[i].time = NaT THEN Raise(Err("time_column_unparsed"))
       ELSE IF user_start.raised \/ user_end.raised THEN Raise(Err("invalid_format"))
       ELSE IF /\ user_start.val # <<>> /\ user_end.val # <<>>
               /\ EndBeforeStartB(user_start.val[1], user_end.val[1])
       THEN Raise(Err("invalid_range"))
       ELSE IF user_start.val # <<>> /\ user_start.val[1] \notin Range(present_minutes)
       THEN Raise(NotPresentB("start", present_minutes, user_start.val[1]))
       ELSE IF user_end.val # <<>> /\ user_end.val[1] \notin Range(present_minutes)
       THEN Raise(NotPresentB("end", present_minutes, user_end.val[1]))
       ELSE IF trimmed = <<>> THEN Raise(Err("empty_result"))
       ELSE [ok |-> TRUE, err |-> NoErr, rows |-> trimmed,
             start |-> <<FloorMinute(MinTime(trimmed))>>,
             end |-> <<FloorMinute(MaxTime(trimmed))>>,
             summary |-> SummaryB(trimmed)]

(***************************************************************************)
(* The applications (class PlotterApp of either tool).                     *)
(***************************************************************************)
Disabled == "disabled"
Normal == "normal"

Buttons(a, state) ==
    [plot_btn |-> state, save_trim_btn |-> state,
     pdf_btn |-> IF a = "pdf" THEN state ELSE "absent"]

NoBox == <<>>
ErrorBox(title, err) == <<[kind |-> "error", title |-> title, msg |-> err]>>
InfoBox(title, msg) == <<[kind |-> "info", title |-> title, msg |-> msg]>>

Idle == [op |-> "none", box |-> NoBox, out |-> <<>>]

\* PlotterApp.__init__ and _build_ui (the two entry fields start empty; the
\* initial conditions below say what the operator types into them).
AppInit(a) ==
    /\ app = a
    /\ selected_files = <<>>
    /\ loaded = None
    /\ file_label = IF a = "plotter"
                    THEN [text |-> "No files selected", n |-> 0, files |-> <<>>]
                    ELSE [text |-> "(none selected)", n |-> 0, files |-> <<>>]
    /\ range_label = <<>>
    /\ buttons = Buttons(a, Disabled)
    /\ last = Idle

\* PlotterApp.select_files of the plotter
SelectFilesA ==
    /\ app = "plotter"
    /\ IF dialog = <<>>
       THEN UNCHANGED <<selected_files, loaded, file_label, range_label, buttons, last>>
       ELSE \E res \in {LoadPt100CsvFiles(dialog)} :
               /\ selected_files' = dialog
               /\ file_label' = [text |-> "file(s) selected", n |-> Len(dialog),
                                  files |-> <<>>]
               /\ IF ~res.ok
                  THEN /\ loaded' = None
                       /\ last' = [op |-> "select_files",
                                   box |-> ErrorBox("Load Error", [kind |-> res.err]),
                                   out |-> <<>>]
                       /\ buttons' = Buttons("plotter", Disabled)
                       /\ UNCHANGED range_label
                  ELSE /\ loaded' = res.log
                       /\ range_label' =
                            <<[t0 |-> MinTime(res.log[1].dataframe),
                               t1 |-> MaxTime(res.log[1].dataframe),
                               tz_note |-> IF res.log[1].time_is_local THEN "local" ELSE "UTC",
                               dropped |-> res.log[1].dropped_rows_no_time]>>
                       /\ buttons' = Buttons("plotter", Normal)
                       /\ last' = [op |-> "select_files", box |-> NoBox, out |-> <<>>]
    /\ UNCHANGED <<app, dialog, start_time_text, end_time_text>>
    /\ UNCHANGED others

\* PlotterApp.select_files of the pdf tool
SelectFilesB ==
    /\ app = "pdf"
    /\ IF dialog = <<>>
       THEN UNCHANGED <<selected_files, loaded, file_label, range_label, buttons, last>>
       ELSE \E res \in LoadCsvFiles(dialog) :
               /\ selected_files' = dialog
               /\ IF ~res.ok
                  THEN /\ loaded' = None
                       /\ last' = [op |-> "select_files",
                                   box |-> ErrorBox("Load Error", [kind |-> res.err]),
                                   out |-> <<>>]
                       /\ UNCHANGED <<file_label, buttons>>
                  ELSE /\ loaded' = res.log
                       /\ file_label' = [text |-> "file names", n |-> Len(dialog),
                                          files |-> dialog]
                       /\ buttons' = Buttons("pdf", Normal)
                       /\ last' = [op |-> "select_files",
                                   box |-> IF res.log[1].dropped_no_time_rows # 0
                                           THEN InfoBox("Info", [kind |-> "dropped"])
                                           ELSE NoBox,
                                   out |-> <<>>]
    /\ UNCHANGED <<app, dialog, start_time_text, end_time_text, range_label>>
    /\ UNCHANGED others

SelectFiles == SelectFilesA \/ SelectFilesB

\* A wrong variant of GetTrimmedDfA (the rows at the very start boundary left
\* out, and no check for an empty result); property C17 must tell it from
\* GetTrimmedDfA.
GetTrimmedDfUncheckedA ==
    IF loaded = None THEN Raise(Err("no_data_loaded"))
    ELSE LET r == ValidateAndTrimA(loaded[1].dataframe, start_time_text, end_time_text)
         IN IF r.ok /\ r.start # <<>>
            THEN [r EXCEPT !.rows = SelectSeq(r.rows, LAMBDA x : x.time > r.start[1])]
            ELSE r

\* PlotterApp._get_trimmed_df of the plotter
GetTrimmedDfA ==
    IF loaded = None THEN Raise(Err("no_data_loaded"))
    ELSE LET r == ValidateAndTrimA(loaded[1].dataframe, start_time_text, end_time_text)
         IN IF r.ok /\ r.rows = <<>> THEN Raise(Err("empty_result")) ELSE r

\* PlotterApp._get_trimmed_df of the pdf tool
GetTrimmedDfB ==
    IF loaded = None THEN Raise(Err("no_data_loaded"))
    ELSE ValidateAndTrimB(loaded[1].dataframe, start_time_text, end_time_text)

GetTrimmedDf == IF app = "plotter" THEN GetTrimmedDfA ELSE GetTrimmedDfB

\* A wrong variant of Shown (the failure swallowed, no message box); property
\* C18 must tell it from Shown.
ShownNowhere(op, title, err) == [op |-> op, box |-> NoBox, out |-> <<>>]

Shown(op, title, err) == [op |-> op, box |-> ErrorBox(title, err), out |-> <<>>]

Output(op, kind, r, box) ==
    [op |-> op, box |-> box,
     out |-> <<[kind |-> kind, rows |-> r.rows, start |-> r.start, end |-> r.end,
                summary |-> r.summary]>>]

\* A wrong variant of AppFrame (the trimmed rows put in the place of the
\* loaded ones); property C16 must tell it from AppFrame.
AppFrameTrimInPlace ==
    /\ UNCHANGED <<app, dialog, start_time_text, end_time_text, selected_files,
                   file_label, range_label, buttons>>
    /\ UNCHANGED others
    /\ loaded' = IF loaded # None /\ last'.out # <<>>
                 THEN <<[loaded[1] EXCEPT !.dataframe = last'.out[1].rows]>>
                 ELSE loaded

AppFrame ==
    /\ UNCHANGED <<app, dialog, start_time_text, end_time_text, selected_files,
                   loaded, file_label, range_label, buttons>>
    /\ UNCHANGED others

\* PlotterApp.plot (either tool): the figure shows the trimmed rows, its
\* title the summary.  A disabled button does not call its command.
Plot ==
    /\ buttons.plot_btn = Normal
    /\ IF loaded = None
       THEN last' = Shown("plot", "Plot Error", Err("no_data_loaded"))
       ELSE \E r \in {GetTrimmedDf} :
               IF ~r.ok THEN last' = Shown("plot", "Trim Error", r.err)
               ELSE last' = Output("plot", "figure", r, NoBox)
    /\ AppFrame

\* PlotterApp.save_trimmed_csv (either tool); save_path is what the save
\* dialog returns (FALSE: cancelled).
SaveTrimmedCsv ==
    /\ buttons.save_trim_btn = Normal
    /\ IF app = "pdf" /\ loaded = None
       THEN /\ last' = Shown("save_trimmed_csv", "Save Error", Err("no_data_loaded"))
       ELSE \E r \in {GetTrimmedDf}, save_path \in BOOLEAN :
               IF ~r.ok THEN last' = Shown("save_trimmed_csv", "Trim Error", r.err)
               ELSE IF ~save_path THEN UNCHANGED last
               ELSE last' = Output("save_trimmed_csv", "csv", r,
                                   InfoBox("Saved", [kind |-> "saved"]))
    /\ AppFrame

\* PlotterApp.export_pdf (pdf tool)
ExportPdf ==
    /\ app = "pdf"
    /\ buttons.pdf_btn = Normal
    /\ IF loaded = None
       THEN last' = Shown("export_pdf", "PDF Error", Err("no_data_loaded"))
       ELSE \E r \in {GetTrimmedDf}, save_path \in BOOLEAN :
               IF ~r.ok THEN last' = Shown("export_pdf", "Trim Error", r.err)
               ELSE IF ~save_path THEN UNCHANGED last
               ELSE last' = Output("export_pdf", "pdf", r,
                                   InfoBox("Success", [kind |-> "saved"]))
    /\ AppFrame

(***************************************************************************)
(* Inputs of the loader runs: every selection of 1..MaxFiles files with at *)
(* most MaxLoadRows rows together.  Each file has any subset of the three  *)
(* timestamp columns; a cell of a column the file has is unparseable text, *)
(* a non-positive number or a valid value.  The valid values of the three  *)
(* columns differ, so the column a resolved time came from shows.          *)
(***************************************************************************)
IsoSample == 1 * SecondsPerMinute + 30
EpochSample == 2 * SecondsPerMinute
TcolSample == 3 * SecondsPerMinute + 15

IsoCells(kind) == {BadText, IsoStr(kind, IsoSample)}
EpochCells == {BadText, Num(0), Num(0 - 5), Num(EpochSample)}
TcolCells(kind) == {IsoStr(kind, TcolSample)}

FileRows(cols, kind) ==
    [iso : IF "iso8601_local" \in cols THEN IsoCells(kind) ELSE {NA},
     epoch : IF "epoch_utc" \in cols THEN EpochCells ELSE {NA},
     tcol : IF "__time" \in cols THEN TcolCells(kind) ELSE {NA}]

\* The rows rs with the sequence numbers 1, 2, ... of a log written in order.
Numbered(rs) ==
    [j \in DOMAIN rs |->
       [iso |-> rs[j].iso, epoch |-> rs[j].epoch, tcol |-> rs[j].tcol, seq |-> Num(j)]]

FilesOfLen(n, kind) ==
    UNION {{[cols |-> c \cup {"seq"}, rows |-> Numbered(rs)] :
              rs \in [1..n -> FileRows(c, kind)]} :
             c \in SUBSET {"iso8601_local", "epoch_utc", "__time"}}

RECURSIVE SelectionsOf(_, _, _)
SelectionsOf(k, n, kind) ==
    IF k = 0 \/ n = 0 THEN {<<>>}
    ELSE {<<>>} \cup
         UNION {{<<f>> \o rest : f \in FilesOfLen(m, kind),
                                 rest \in SelectionsOf(k - 1, n - m, kind)} : m \in 1..n}

\* The example of the specification: epoch values [0, -5, 1700000000] and no
\* local-time column.
EpochExample ==
    [cols |-> {"epoch_utc", "seq"},
     rows |-> Numbered(<<[iso |-> NA, epoch |-> Num(0), tcol |-> NA],
                         [iso |-> NA, epoch |-> Num(0 - 5), tcol |-> NA],
                         [iso |-> NA, epoch |-> Num(EpochSample), tcol |-> NA]>>)]

NoText == Text("empty")

InitLoad ==
    /\ \E a \in Apps : AppInit(a)
    /\ OthersIdle
    /\ \/ \E kind \in IsoKinds : dialog \in SelectionsOf(MaxFiles, MaxLoadRows, kind)
       \/ dialog = <<EpochExample>>
    /\ start_time_text = NoText
    /\ end_time_text = NoText

NextLoad == SelectFiles

SpecLoad == InitLoad /\ [][NextLoad]_vars

(***************************************************************************)
(* Inputs of the trimmer runs: one file of 1..MaxTrimRows rows in time     *)
(* order, at the seconds SecondOffsets of the minutes 1..MaxMinute, with   *)
(* the local-time column and the "__time" column; and what the operator    *)
(* typed as start and end: nothing, white space, garbage, or a minute of   *)
(* 0..MaxMinute+1 in one of TextForms.                                     *)
(***************************************************************************)
SecondOffsets == {0, 30}

TrimTimes == {m * SecondsPerMinute + o : m \in 1..MaxMinute, o \in SecondOffsets}

TimeFile(kind, times) ==
    [cols |-> {"iso8601_local", "__time", "seq"},
     rows |-> [i \in DOMAIN times |->
                 [iso |-> IsoStr(kind, times[i]), epoch |-> NA,
                  tcol |-> IsoStr(kind, times[i]), seq |-> Num(i)]]]

TrimSelections ==
    {<<TimeFile("isoz", SortedSeqOf(S))>> :
        S \in {S \in SUBSET TrimTimes : S # {} /\ Cardinality(S) <= MaxTrimRows}}

TextForms == {<<"-", " ", <<>>>>, <<"-", "T", <<>>>>, <<"/", " ", <<>>>>,
              <<"-", " ", <<30>>>>}

TrimTexts ==
    {Text("empty"), Text("blank"), Text("garbage")} \cup
    {TimeText(m, f[1], f[2], f[3]) : m \in 0..(MaxMinute + 1), f \in TextForms}

InitTrim ==
    /\ \E a \in Apps : AppInit(a)
    /\ OthersIdle
    /\ dialog \in TrimSelections
    /\ start_time_text \in TrimTexts
    /\ end_time_text \in TrimTexts

NextTrim == SelectFiles \/ Plot

SpecTrim == InitTrim /\ [][NextTrim]_vars

(***************************************************************************)
(* The application as the operator drives it: files are picked, loaded,    *)
(* picked again, and the three buttons pressed in any order.  The files    *)
(* are a few logs of the kinds the tools meet, the texts of the two entry  *)
(* fields a few texts of every kind.                                       *)
(***************************************************************************)
\* A CSV written by "Save Trimmed CSV" of the plotter: rows in the minutes 1
\* and 3, with the "__time" column.
SavedFile ==
    TimeFile("isoz", <<1 * SecondsPerMinute, 1 * SecondsPerMinute + 30,
                       3 * SecondsPerMinute>>)

\* A log as the logger writes it: local-time strings, no "__time" column.
RawFile ==
    [cols |-> {"iso8601_local", "seq"},
     rows |-> <<[iso |-> IsoStr("isoz", 2 * SecondsPerMinute + 10), epoch |-> NA,
                 tcol |-> NA, seq |-> Num(1)]>>]

\* A log with a "__time" column whose cells are empty.
BlankTimeFile ==
    [cols |-> {"iso8601_local", "__time", "seq"},
     rows |-> <<[iso |-> IsoStr("isoz", 1 * SecondsPerMinute), epoch |-> NA,
                 tcol |-> NA, seq |-> Num(1)],
                [iso |-> IsoStr("isoz", 2 * SecondsPerMinute), epoch |-> NA,
                 tcol |-> NA, seq |-> Num(2)]>>]

\* A log without any usable timestamp.
NoTimeFile ==
    [cols |-> {"iso8601_local", "epoch_utc", "seq"},
     rows |-> <<[iso |-> BadText, epoch |-> Num(0), tcol |-> NA, seq |-> Num(1)]>>]

\* What the file dialog can return; <<>> is a cancelled dialog.
GuiSelections ==
    {<<>>, <<EpochExample>>, <<SavedFile>>, <<BlankTimeFile>>,
     <<SavedFile, RawFile>>, <<NoTimeFile>>}

GuiTexts ==
    {Text("empty"), Text("blank"), Text("garbage"),
     TimeText(1, "-", " ", <<>>), TimeText(2, "-", " ", <<>>),
     TimeText(3, "-", "T", <<>>)}

Init ==
    /\ \E a \in Apps : AppInit(a)
    /\ OthersIdle
    /\ dialog \in GuiSelections
    /\ start_time_text \in GuiTexts
    /\ end_time_text \in GuiTexts

\* The operator picks other files in the dialog that "Select CSV File(s)"
\* opens next (filedialog.askopenfilenames).
Browse ==
    /\ dialog' \in GuiSelections \ {dialog}
    /\ UNCHANGED <<app, start_time_text, end_time_text, selected_files, loaded,
                   file_label, range_label, buttons, last>>
    /\ UNCHANGED others

\* The operator closes what the last operation showed (message box, figure)
\* and types other texts into the start and end fields (the tk.Entry widgets
\* of start_time_text and end_time_text).
Type ==
    /\ \E s \in GuiTexts, e \in GuiTexts :
          /\ <<s, e>> # <<start_time_text, end_time_text>>
          /\ start_time_text' = s
          /\ end_time_text' = e
    /\ last' = Idle
    /\ UNCHANGED <<app, dialog, selected_files, loaded, file_label, range_label,
                   buttons>>
    /\ UNCHANGED others

Next == Browse \/ Type \/ SelectFiles \/ Plot \/ SaveTrimmedCsv \/ ExportPdf

Spec == Init /\ [][Next]_vars

(***************************************************************************)
(* Inputs of the sorting runs: 1..MaxFiles files with at most MaxSortRows  *)
(* rows together, in any order of time.  A file is a raw log or a saved    *)
(* one (with the "__time" column); a row is in one of two minutes and has  *)
(* a sequence number or none.                                              *)
(***************************************************************************)
SortTimes == {1 * SecondsPerMinute, 2 * SecondsPerMinute}

SortSeqs == {NA, Num(1), Num(2)}

SortRows(saved) ==
    {[iso |-> IsoStr("isoz", t), epoch |-> NA,
      tcol |-> IF saved THEN IsoStr("isoz", t) ELSE NA, seq |-> q] :
        t \in SortTimes, q \in SortSeqs}

SortFilesOfLen(n) ==
    UNION {{[cols |-> IF saved THEN {"iso8601_local", "__time", "seq"}
                      ELSE {"iso8601_local", "seq"},
             rows |-> rs] : rs \in [1..n -> SortRows(saved)]} : saved \in BOOLEAN}

RECURSIVE SortSelectionsOf(_, _)
SortSelectionsOf(k, n) ==
    IF k = 0 \/ n = 0 THEN {<<>>}
    ELSE {<<>>} \cup
         UNION {{<<f>> \o rest : f \in SortFilesOfLen(m),
                                 rest \in SortSelectionsOf(k - 1, n - m)} : m \in 1..n}

InitSort ==
    /\ \E a \in Apps : AppInit(a)
    /\ OthersIdle
    /\ dialog \in SortSelectionsOf(MaxFiles, MaxSortRows)
    /\ start_time_text = NoText
    /\ end_time_text = NoText

NextSort == SelectFiles

SpecSort == InitSort /\ [][NextSort]_vars

(***************************************************************************)
(* pt100_csv_plotter_pdf.py: the summary statistics of the report.  A       *)
(* statistic is what the report prints: [k |-> "n/a"], or [k |-> "f3"] with *)
(* v the printed number in thousandths ("2.000" is 2000), or [k |-> "nan"]. *)
(* With at most MaxSeries + 1 whole-number entries no mean and no standard  *)
(* deviation lies half-way between two thousandths, so rounding to the      *)
(* nearest thousandth is all there is to the "%.3f" format.                 *)
(***************************************************************************)
NotAvailable == [k |-> "n/a", v |-> 0]
NotANumber == [k |-> "nan", v |-> 0]
F3(milli) == [k |-> "f3", v |-> milli]

\* pd.to_numeric(series, errors="coerce").dropna(): the numbers, in order.
RECURSIVE DropNa(_)
DropNa(s) ==
    IF s = <<>> THEN <<>>
    ELSE (IF Head(s).k \in NumKinds THEN <<Head(s).v>> ELSE <<>>)
         \o DropNa(Tail(s))

RECURSIVE Sum(_)
Sum(xs) == IF xs = <<>> THEN 0 ELSE Head(xs) + Sum(Tail(xs))

Squares(xs) == [i \in DOMAIN xs |-> xs[i] * xs[i]]

\* f"{num / den:.3f}" for den > 0: the nearest thousandth.
Format3(num, den) == F3((2 * Milli * num + den) \div (2 * den))

\* The least k in lo..hi with sqrt(num / den) < (2k + 1) / (2 * Milli).
RECURSIVE LeastRoot(_, _, _, _)
LeastRoot(lo, hi, num, den) ==
    IF lo >= hi THEN lo
    ELSE LET mid == (lo + hi) \div 2
         IN  IF 4 * Milli * Milli * num < (2 * mid + 1) * (2 * mid + 1) * den
             THEN LeastRoot(lo, mid, num, den)
             ELSE LeastRoot(mid + 1, hi, num, den)

\* f"{sqrt(num / den):.3f}" for num >= 0, den > 0 and a root of at most `most`.
FormatRoot3(num, den, most) == F3(LeastRoot(0, Milli * most, num, den))

Smallest(xs) == CHOOSE x \in Range(xs) : \A y \in Range(xs) : x <= y
Largest(xs) == CHOOSE x \in Range(xs) : \A y \in Range(xs) : y <= x

\* Len(xs)^2 times the variance of xs with divisor Len(xs).
Spread(xs) == Len(xs) * Sum(Squares(xs)) - Sum(xs) * Sum(xs)

\* A wrong variant of Std (the sample divisor count - 1, pandas' default
\* ddof = 1, not a number for one entry); property C19 must tell it from Std.
StdSample(xs) ==
    IF Len(xs) = 1 THEN NotANumber
    ELSE FormatRoot3(Spread(xs), Len(xs) * (Len(xs) - 1), Largest(xs) - Smallest(xs))

\* f"{numeric.std(ddof=0):.3f}"
Std(xs) == FormatRoot3(Spread(xs), Len(xs) * Len(xs), Largest(xs) - Smallest(xs))

\* _compute_basic_stats(series)
ComputeBasicStats(s) ==
    LET numeric == DropNa(s)
    IN  IF numeric = <<>>
        THEN [min |-> NotAvailable, avg |-> NotAvailable,
              max |-> NotAvailable, std |-> NotAvailable]
        ELSE [min |-> Format3(Smallest(numeric), 1),
              avg |-> Format3(Sum(numeric), Len(numeric)),
              max |-> Format3(Largest(numeric), 1),
              std |-> Std(numeric)]

(***************************************************************************)
(* Inputs of the statistics runs: every column of at most MaxSeries cells, *)
(* a cell being missing, a text that is no number, or one of three numbers *)
(* (as a number or as a numeric string).                                   *)
(***************************************************************************)
StatCells == {NA, BadText, NumText(1), NumText(3), Num(0 - 1)}

InitStats ==
    /\ AppInit("pdf")
    /\ dialog = <<>>
    /\ start_time_text = NoText
    /\ end_time_text = NoText
    /\ \E n \in 0..MaxSeries : series \in [1..n -> StatCells]
    /\ stats = <<>>
    /\ IngestIdle

\* One call of _compute_basic_stats on the column.
CallComputeBasicStats ==
    /\ stats = <<>>
    /\ stats' = <<ComputeBasicStats(series)>>
    /\ UNCHANGED gui
    /\ UNCHANGED <<series, serial_port, temp_samples, clock, stderr, listening>>

NextStats == CallComputeBasicStats

SpecStats == InitStats /\ [][NextStats]_vars

(***************************************************************************)
(* mesh_ingest.py: JSON lines read from the mesh root over serial and       *)
(* stored into SQLite.  What readline() returns is a record [k, sample]:   *)
(* k = "timeout" (b"", nothing arrived within the timeout), "blank" (white *)
(* space only), "text" (a line that does not start with "{"), "badjson" (a *)
(* line that starts with "{" and is no JSON document, such as a record cut *)
(* short by the timeout) or "json" (a JSON object, its members in sample). *)
(* A member of an object is a cell: "na" (the key is absent), "null",      *)
(* "num", "numtext" (a string such as "5"), "text" (any other string).     *)
(***************************************************************************)
Null == [k |-> "null", v |-> 0]
NodeId(n) == [k |-> "text", v |-> n]         \* "AA:BB:CC:DD:EE:FF"
EmptyString == NodeId(0)                     \* ""

Returned(v) == [ok |-> TRUE, v |-> v, exc |-> "none"]
Raised(exc) == [ok |-> FALSE, v |-> NA, exc |-> exc]

\* A wrong variant of IntOf (a text that is no number counts as 0); property
\* C20 must tell it from IntOf.
IntOrZero(cell) ==
    CASE cell.k \in NumKinds -> Returned(Num(cell.v))
      [] cell.k = "null" -> Raised("TypeError")
      [] OTHER -> Returned(Num(0))

\* int(sample.get(key, 0))
IntOf(cell) ==
    CASE cell.k = "na" -> Returned(Num(0))
      [] cell.k \in NumKinds -> Returned(Num(cell.v))
      [] cell.k = "null" -> Raised("TypeError")
      [] OTHER -> Raised("ValueError")

\* float(sample.get(key, "nan")); SQLite keeps a NaN as NULL.
FloatOf(cell) ==
    CASE cell.k = "na" -> Returned(NA)
      [] cell.k \in NumKinds -> Returned(Num(cell.v))
      [] cell.k = "null" -> Raised("TypeError")
      [] OTHER -> Raised("ValueError")

\* sample.get("node", "") bound to node_id TEXT NOT NULL
NodeOf(cell) ==
    CASE cell.k = "na" -> Returned(EmptyString)
      [] cell.k = "null" -> Raised("sqlite3.IntegrityError")
      [] OTHER -> Returned(cell)

\* insert_sample(connection, sample) at host time now; accepts tells whether
\* the database executes and commits the INSERT (it may be locked, full or
\* gone).  The parameters are evaluated before the statement is run.
InsertSample(sample, now, accepts) ==
    LET ts == IntOf(sample.ts)
        temp_c == FloatOf(sample.temp_c)
        raw_c == FloatOf(sample.raw_c)
        r_ohm == FloatOf(sample.r_ohm)
        seq == IntOf(sample.seq)
        node == NodeOf(sample.node)
        params == <<ts, temp_c, raw_c, r_ohm, seq>>
    IN  IF \E i \in DOMAIN params : ~params[i].ok
        THEN Raised(params[CHOOSE i \in DOMAIN params :
                              /\ ~params[i].ok
                              /\ \A j \in 1..(i - 1) : params[j].ok].exc)
        ELSE IF ~node.ok THEN node
        ELSE IF ~accepts THEN Raised("sqlite3.OperationalError")
        ELSE Returned([node_id |-> node.v, ts_epoch |-> ts.v, temp_c |-> temp_c.v,
                       raw_c |-> raw_c.v, r_ohm |-> r_ohm.v, seq |-> seq.v,
                       received_epoch |-> now])

\* One turn of the while loop of main: a readline() and what follows it.
MainLoop ==
    /\ listening
    /\ serial_port.pos < Len(serial_port.lines)
    /\ serial_port' = [serial_port EXCEPT !.pos = @ + 1]
    /\ LET nr == serial_port.pos + 1
           line == serial_port.lines[nr]
       IN  CASE line.k \in {"timeout", "blank", "text"} ->
                  UNCHANGED <<temp_samples, stderr>>
             [] line.k = "badjson" ->
                  /\ stderr' = Append(stderr, [line |-> nr, exc |-> "json.JSONDecodeError"])
                  /\ UNCHANGED temp_samples
             [] OTHER ->
                  IF line.sample.type # "temp"
                  THEN UNCHANGED <<temp_samples, stderr>>
                  ELSE \E accepts \in BOOLEAN :
                          \E res \in {InsertSample(line.sample, clock, accepts)} :
                             IF res.ok
                             THEN /\ temp_samples' = Append(temp_samples, res.v)
                                  /\ UNCHANGED stderr
                             ELSE /\ stderr' = Append(stderr, [line |-> nr, exc |-> res.exc])
                                  /\ UNCHANGED temp_samples
    /\ UNCHANGED <<clock, listening, series, stats>>
    /\ UNCHANGED gui

\* Ctrl-C: the loop is left (the break of line 93, or the exception leaving
\* main when it arrives outside the try).
KeyboardInterrupt ==
    /\ listening
    /\ listening' = FALSE
    /\ UNCHANGED <<serial_port, temp_samples, clock, stderr, series, stats>>
    /\ UNCHANGED gui

\* serial_port.readline() raises serial.SerialException (the device was
\* unplugged, the port was lost): line 76 is outside the try of lines 79-95,
\* so the exception leaves main and the interpreter prints its traceback.
SerialError ==
    /\ listening
    /\ listening' = FALSE
    /\ stderr' = Append(stderr, [line |-> serial_port.pos + 1,
                                 exc |-> "serial.SerialException"])
    /\ UNCHANGED <<serial_port, temp_samples, clock, series, stats>>
    /\ UNCHANGED gui

\* The host's clock goes on.
Tick ==
    /\ clock < MaxClock
    /\ clock' = clock + 1
    /\ UNCHANGED <<serial_port, temp_samples, stderr, listening, series, stats>>
    /\ UNCHANGED gui

(***************************************************************************)
(* Inputs of the ingest runs: every stream of at most MaxLines lines of    *)
(* the kinds below, into a new database or into one that holds a row of an *)
(* earlier run.                                                            *)
(***************************************************************************)
NoSample ==
    [type |-> "absent", node |-> NA, ts |-> NA, temp_c |-> NA, raw_c |-> NA,
     r_ohm |-> NA, seq |-> NA]

Line(k) == [k |-> k, sample |-> NoSample]
Json(sample) == [k |-> "json", sample |-> sample]

\* {"type":"temp","node":"..","ts":1700000000,"temp_c":12.345,...,"seq":n}:
\* the record of the module's docstring, from node n with sequence number n.
TempRecord(n) ==
    [type |-> "temp", node |-> NodeId(n), ts |-> Num(SampleEpoch + n),
     temp_c |-> Num(12), raw_c |-> Num(12), r_ohm |-> Num(104), seq |-> Num(n)]

IngestLines ==
    {Line("timeout"), Line("blank"), Line("text"), Line("badjson"),
     Json([NoSample EXCEPT !.type = "status"]),
     Json(TempRecord(1)),
     Json([NoSample EXCEPT !.type = "temp"]),
     Json([TempRecord(2) EXCEPT !.ts = BadText])}

OldRow ==
    [node_id |-> NodeId(3), ts_epoch |-> Num(SampleEpoch), temp_c |-> Num(11),
     raw_c |-> Num(11), r_ohm |-> Num(104), seq |-> Num(0), received_epoch |-> 0]

InitIngest ==
    /\ AppInit("plotter")
    /\ dialog = <<>>
    /\ start_time_text = NoText
    /\ end_time_text = NoText
    /\ series = <<>>
    /\ stats = <<>>
    /\ \E n \in 0..MaxLines :
          \E lines \in [1..n -> IngestLines] :
             serial_port = [lines |-> lines, pos |-> 0]
    /\ temp_samples \in {<<>>, <<OldRow>>}
    /\ clock = 0
    /\ stderr = <<>>
    /\ listening = TRUE

NextIngest == MainLoop \/ KeyboardInterrupt \/ SerialError \/ Tick

SpecIngest == InitIngest /\ [][NextIngest]_vars

\* The while loop of main never pauses of itself: as long as it is running
\* and the port has a line, a turn is taken.
SpecIngestFair == SpecIngest /\ WF_vars(MainLoop)

(***************************************************************************)
(* Properties of the trimmers (checked under SpecTrim).                    *)
(***************************************************************************)
\* A trim has run on the loaded dataset with the texts of the two fields.
Trimmed == last.op = "plot" /\ loaded # None

TrimSucceeded == Trimmed /\ last.out # <<>>

TrimFailed ==
    Trimmed /\ last.out = <<>> /\ last.box # NoBox /\ last.box[1].kind = "error"

TrimError == last.box[1].msg

Dataset == loaded[1].dataframe

\* The minute buckets present in the dataset.
Buckets == {FloorMinute(Dataset[i].time) : i \in {i \in DOMAIN Dataset : Dataset[i].time # NaT}}

SetMin(S) == CHOOSE x \in S : \A y \in S : x <= y
SetMax(S) == CHOOSE x \in S : \A y \in S : x >= y

\* The text denotes a date and time (in any of the forms of a time text).
IsTime(text) == text.kind = "time"

\* The minute a time text denotes, seconds dropped.
BoundaryMinute(text) == text.minute * SecondsPerMinute

\* The text is a boundary for the running tool: not empty, and its parser
\* returns a date-time for it.
Given(text) ==
    IF app = "plotter" THEN SafeParseUserTime(text).val # <<>>
    ELSE ~ParseUserTime(text).raised /\ ParseUserTime(text).val # <<>>

\* C1: a start or end text that denotes a date-time whose minute is not one
\* of the minute buckets of the dataset makes the trim fail: no trimmed data
\* comes back (so a trim succeeds only with every boundary on a bucket).
C1_AbsentBoundaryFails ==
    Trimmed =>
        \A text \in {start_time_text, end_time_text} :
            (IsTime(text) /\ BoundaryMinute(text) \notin Buckets) => TrimFailed

\* C1 happens: a start on a bucket, an end off the buckets, and the trim failed.
C1_Witness ==
    /\ TrimFailed
    /\ IsTime(start_time_text) /\ BoundaryMinute(start_time_text) \in Buckets
    /\ IsTime(end_time_text) /\ BoundaryMinute(end_time_text) \notin Buckets
    /\ BoundaryMinute(end_time_text) > SetMin(Buckets)
    /\ BoundaryMinute(end_time_text) < SetMax(Buckets)

\* The bucket nearest to minute t, the earlier one of two equally near.
ClosestEarliest(S, t) ==
    CHOOSE m \in S : \A o \in S :
        Abs(m - t) < Abs(o - t) \/ (Abs(m - t) = Abs(o - t) /\ m <= o)

RejectedMinute ==
    IF TrimError.side = "start" THEN BoundaryMinute(start_time_text)
    ELSE BoundaryMinute(end_time_text)

\* C2: when a boundary is rejected as not present, the nearest minute the
\* error reports is the bucket at the least distance from the requested
\* minute, and the earlier bucket when two are equally distant.
C2_NearestIsClosestEarlierOnTie ==
    (TrimFailed /\ TrimError.kind = "not_present") =>
        TrimError.nearest = <<ClosestEarliest(Buckets, RejectedMinute)>>

\* C3: a start or end text that is not empty and is no date-time makes the
\* trim fail with the invalid-time-format error; it is never taken for an
\* omitted boundary.
C3_UnparseableBoundaryRejected ==
    Trimmed =>
        \A text \in {start_time_text, end_time_text} :
            text.kind = "garbage" => (TrimFailed /\ TrimError.kind = "invalid_format")

InBounds(r) ==
    /\ (IsTime(start_time_text) => BoundaryMinute(start_time_text) <= r.time)
    /\ (IsTime(end_time_text) => r.time < BoundaryMinute(end_time_text) + SecondsPerMinute)

\* C4: a successful trim returns exactly the rows of the dataset with
\* start_minute <= t (start given) and t < end_minute + 1 minute (end given),
\* in their order; an omitted side is not filtered.
C4_TrimKeepsExactlyTheRowsInRange ==
    TrimSucceeded => last.out[1].rows = SelectSeq(Dataset, InBounds)

\* C4 happens: both boundaries given, some row cut away, and a row later in
\* the end boundary's minute than its first second kept.
C4_Witness ==
    /\ TrimSucceeded
    /\ IsTime(start_time_text) /\ IsTime(end_time_text)
    /\ BoundaryMinute(start_time_text) < BoundaryMinute(end_time_text)
    /\ Len(last.out[1].rows) < Len(Dataset)
    /\ \E i \in DOMAIN last.out[1].rows :
          last.out[1].rows[i].time > BoundaryMinute(end_time_text)

BothGiven == Given(start_time_text) /\ Given(end_time_text)

C9_SummaryIsOfTheTrimmedRows ==
    TrimSucceeded =>
        LET rows == last.out[1].rows
            times == {rows[i].time : i \in DOMAIN rows}
        IN /\ last.out[1].summary.start = <<FloorMinute(SetMin(times))>>
           /\ last.out[1].summary.end = <<FloorMinute(SetMax(times))>>
           /\ last.out[1].summary.count = <<Len(rows)>>

\* C10: the error for a boundary that is no bucket tells the valid range
\* (the earliest and the latest bucket) and the nearest valid minute.
C10_NotPresentTellsRangeAndNearest ==
    (TrimFailed /\ TrimError.kind = "not_present") =>
        /\ TrimError.range = <<SetMin(Buckets), SetMax(Buckets)>>
        /\ TrimError.nearest # <<>>

(***************************************************************************)
(* Properties of the loaders (checked under SpecLoad).                     *)
(***************************************************************************)
\* A load of the selected files has run.
LoadRan == last.op = "select_files"

LoadSucceeded == LoadRan /\ loaded # None

LoadFailed ==
    LoadRan /\ loaded = None /\ last.box # NoBox /\ last.box[1].kind = "error"

\* The merged rows of the selected files, in file order.
Merged == Concat(selected_files).rows

\* What a row's cells give as a time, by the meaning of the two columns.
LocalTimeOf(r) == IF r.iso.k \in IsoKinds THEN r.iso.v ELSE NaT
EpochTimeOf(r) == IF r.epoch.k = "num" /\ r.epoch.v > 0 THEN r.epoch.v ELSE NaT

\* The basis the priority rule gives for the merged rows.
Basis ==
    IF \E i \in DOMAIN Merged : LocalTimeOf(Merged[i]) # NaT THEN "local"
    ELSE IF \E i \in DOMAIN Merged : EpochTimeOf(Merged[i]) # NaT THEN "epoch"
    ELSE "none"

BasisTimeOf(r) ==
    IF Basis = "local" THEN LocalTimeOf(r)
    ELSE IF Basis = "epoch" THEN EpochTimeOf(r)
    ELSE NaT

RowId(r) == <<r.src, r.row>>

RowIds(rows) == {RowId(rows[i]) : i \in DOMAIN rows}

\* C5: a load succeeds exactly when the merged rows of all the files have a
\* usable value (a parseable local-time string, or else a positive epoch),
\* and fails with the no-usable-timestamp error otherwise; on success the
\* time of every row comes from the basis of the priority rule: the local
\* time if any merged row has one, the epoch otherwise.
C5_BasisByPriorityOverMergedRows ==
    LoadRan =>
        /\ Basis = "none" =>
              (LoadFailed /\ last.box[1].msg.kind = "no_usable_timestamp")
        /\ Basis # "none" =>
              /\ LoadSucceeded
              /\ \A i \in DOMAIN loaded[1].dataframe :
                    LET r == loaded[1].dataframe[i]
                    IN r.time # NaT => r.time = BasisTimeOf(r)

\* C6: a successful load returns exactly the merged rows that have a time
\* under the basis, each with its time filled, and counts the others: rows
\* returned + dropped = merged rows.
C6_ReturnedPlusDroppedIsMerged ==
    LoadSucceeded =>
        LET df == loaded[1].dataframe
        IN /\ \A i \in DOMAIN df : df[i].time # NaT
           /\ Len(df) = Cardinality(RowIds(df))
           /\ RowIds(df) = RowIds(SelectSeq(Merged, LAMBDA r : BasisTimeOf(r) # NaT))
           /\ Dropped(app, loaded[1]) = Count(Merged, LAMBDA r : BasisTimeOf(r) = NaT)
           /\ Len(df) + Dropped(app, loaded[1]) = Len(Merged)

RowsOf(f) == SelectSeq(Merged, LAMBDA r : r.src = f)

\* Every row of file f has a valid local-time string and no epoch value.
LocalOnlyFile(f) ==
    \A i \in DOMAIN RowsOf(f) :
        LocalTimeOf(RowsOf(f)[i]) # NaT /\ RowsOf(f)[i].epoch = NA

\* Every row of file f has a positive epoch value and no local-time string.
EpochOnlyFile(f) ==
    \A i \in DOMAIN RowsOf(f) :
        EpochTimeOf(RowsOf(f)[i]) # NaT /\ RowsOf(f)[i].iso = NA

LocalAndEpochFiles ==
    /\ LoadRan /\ Len(selected_files) = 2
    /\ \E f \in 1..2 : LocalOnlyFile(f) /\ EpochOnlyFile(3 - f)

\* C7: the plotter's load of two files, one with only valid local-time
\* strings and one with only valid positive epochs, succeeds on the local
\* basis: the result is the rows of the local-time file, each with the time
\* of its string, and the rows of the epoch file are all counted as dropped.
C7_LocalBasisDropsEpochOnlyFile ==
    (app = "plotter" /\ LocalAndEpochFiles) =>
        \E f \in 1..2 :
            /\ LocalOnlyFile(f) /\ EpochOnlyFile(3 - f)
            /\ LoadSucceeded
            /\ loaded[1].time_is_local
            /\ RowIds(loaded[1].dataframe) = RowIds(RowsOf(f))
            /\ \A i \in DOMAIN loaded[1].dataframe :
                  loaded[1].dataframe[i].time = LocalTimeOf(loaded[1].dataframe[i])
            /\ loaded[1].dropped_rows_no_time = Len(RowsOf(3 - f))

\* C7 happens: the plotter loaded such a pair of files.
C7_Witness ==
    /\ app = "plotter" /\ LocalAndEpochFiles /\ LoadSucceeded
    /\ loaded[1].dropped_rows_no_time > 0

(***************************************************************************)
(* Further properties of the trimmers (checked under SpecTrim).            *)
(***************************************************************************)
\* The same boundary written in the plain form "YYYY-MM-DD HH:MM".
PlainForm(text) ==
    IF IsTime(text) THEN TimeText(text.minute, "-", " ", <<>>) ELSE text

\* What the running tool's trimmer returns for the dataset and two texts.
TrimOf(start_text, end_text) ==
    IF app = "plotter" THEN ValidateAndTrimA(Dataset, start_text, end_text)
    ELSE ValidateAndTrimB(Dataset, start_text, end_text)

\* C11: a boundary written with a space or a "T", with dashes or slashes,
\* with or without seconds, is accepted and gives the trim the same outcome
\* as the same boundary in the plain form (seconds removed): the same rows
\* on success, the same kind of error on failure.
C11_EveryFormOfABoundaryIsAccepted ==
    Trimmed =>
        LET plain == TrimOf(PlainForm(start_time_text), PlainForm(end_time_text))
        IN /\ plain.ok <=> TrimSucceeded
           /\ plain.ok => last.out[1].rows = plain.rows
           /\ ~plain.ok => (TrimFailed /\ TrimError.kind = plain.err.kind)

\* C12: with the start and the end text both empty or blank, the trim of a
\* loaded dataset that has rows succeeds and returns the rows of the dataset,
\* all of them, in their order.
C12_EmptyBoundariesReturnTheDataset ==
    (Trimmed /\ Stripped(start_time_text) /\ Stripped(end_time_text)
             /\ Dataset # <<>>) =>
        (TrimSucceeded /\ last.out[1].rows = Dataset)

(***************************************************************************)
(* Properties of the order of a loaded dataset (checked under SpecSort).   *)
(***************************************************************************)
\* C13: after a successful load every two adjacent rows of the dataset have
\* times, and the time of the first is <= the time of the second.
C13_LoadedRowsAscendInTime ==
    LoadSucceeded =>
        \A i \in 1..(Len(loaded[1].dataframe) - 1) :
            LET a == loaded[1].dataframe[i]
                b == loaded[1].dataframe[i + 1]
            IN a.time # NaT /\ b.time # NaT /\ a.time <= b.time

\* Row a is before row b in the merge (file order, then row order).
MergedBefore(a, b) == a.src < b.src \/ (a.src = b.src /\ a.row < b.row)

\* C14: of two rows of a loaded dataset with the same time, both with a
\* sequence number, the one with the smaller number comes first; and two
\* rows with the same time and no sequence number are in merge order.
C14_TiesBySeqThenMergeOrder ==
    LoadSucceeded =>
        \A i, j \in DOMAIN loaded[1].dataframe :
            LET a == loaded[1].dataframe[i]
                b == loaded[1].dataframe[j]
            IN (i < j /\ a.time # NaT /\ a.time = b.time) =>
                  /\ (a.seq.k = "num" /\ b.seq.k = "num") => a.seq.v <= b.seq.v
                  /\ (a.seq = NA /\ b.seq = NA) => MergedBefore(a, b)

(***************************************************************************)
(* Further properties of the loaders (checked under SpecLoad).             *)
(***************************************************************************)
\* C15: the tzinfo of a loaded dataset is set only if the dataset is on the
\* local-time basis (time_is_local) and the local-time strings carry an
\* offset; on the epoch basis, and with strings without offset, it is None.
C15_TzinfoOnlyForLocalStringsWithOffset ==
    LoadSucceeded =>
        (loaded[1].tzinfo # "none" =>
            /\ app = "plotter" => loaded[1].time_is_local
            /\ Basis = "local"
            /\ \E i \in DOMAIN Merged : Merged[i].iso.k = "isoz")

(***************************************************************************)
(* Properties of the application (checked under Spec).                     *)
(***************************************************************************)
TrimOps == {"plot", "save_trimmed_csv", "export_pdf"}

\* The last thing done was a plot, a save or an export of the loaded dataset.
TrimRan == last.op \in TrimOps /\ loaded # None

\* C16: whatever plots, saves and exports were done, the loaded dataset is
\* what the load of the selected files produced (rows, order, time column,
\* offset, dropped count), and the rows a trim gives out are the trim of that
\* whole dataset.
C16_TrimLeavesLoadedDatasetAlone ==
    /\ loaded # None =>
          \E res \in LoadResults(app, selected_files) : res.ok /\ loaded = res.log
    /\ (TrimRan /\ last.out # <<>>) =>
          last.out[1].rows = TrimOf(start_time_text, end_time_text).rows

\* C16 happens: a trim gave out fewer rows than the loaded dataset has.
C16_Witness ==
    /\ TrimRan /\ last.out # <<>>
    /\ last.out[1].rows # <<>>
    /\ Len(last.out[1].rows) < Len(Dataset)

C18_FailuresAreShownAndLeaveTheAppUsable ==
    /\ (LoadRan /\ loaded = None) =>
          /\ last.box # NoBox /\ last.box[1].kind = "error"
          /\ last.box[1].title = "Load Error"
          /\ last.out = <<>>
    /\ TrimRan =>
          \A r \in {TrimOf(start_time_text, end_time_text)} :
             ~r.ok =>
                /\ last.out = <<>>
                /\ last.box # NoBox /\ last.box[1].kind = "error"
                /\ last.box[1].title = "Trim Error"
                /\ last.box[1].msg = r.err
                /\ \E res \in LoadResults(app, selected_files) :
                      res.ok /\ loaded = res.log
                /\ buttons.plot_btn = Normal /\ buttons.save_trim_btn = Normal
                /\ app = "pdf" => buttons.pdf_btn = Normal
                /\ \A s \in GuiTexts, e \in GuiTexts :
                      TrimOf(s, e).ok => ENABLED (Type /\ start_time_text' = s
                                                       /\ end_time_text' = e)

\* C18 happens: a trim failed on a boundary that is no bucket, its error is
\* shown, and the dataset is still loaded.
C18_Witness ==
    /\ TrimRan /\ last.out = <<>>
    /\ last.box # NoBox /\ last.box[1].title = "Trim Error"
    /\ last.box[1].msg.kind = "not_present"
    /\ loaded # None

(***************************************************************************)
(* Properties of the summary statistics (checked under SpecStats).         *)
(***************************************************************************)
StatsRan == stats # <<>>

\* Where the column holds a number.
NumericAt == {i \in DOMAIN series : series[i].k \in NumKinds}

\* The sum of the p-th powers (p = 1, 2) of the numbers at the places S.
RECURSIVE PowerSum(_, _)
PowerSum(S, p) ==
    IF S = {} THEN 0
    ELSE LET i == CHOOSE j \in S : TRUE
         IN  (IF p = 1 THEN series[i].v ELSE series[i].v * series[i].v)
             + PowerSum(S \ {i}, p)

\* m thousandths is the nearest thousandth to num / den (den > 0).
NearestMilli(m, num, den) ==
    /\ (2 * m - 1) * den <= 2 * Milli * num
    /\ 2 * Milli * num <= (2 * m + 1) * den

\* m thousandths is the nearest thousandth to the square root of num / den.
NearestMilliRoot(m, num, den) ==
    /\ m >= 0
    /\ m = 0 \/ (2 * m - 1) * (2 * m - 1) * den <= 4 * Milli * Milli * num
    /\ 4 * Milli * Milli * num <= (2 * m + 1) * (2 * m + 1) * den

\* C19: for every column, _compute_basic_stats drops the missing and the
\* non-numeric entries; with no number left every statistic is "n/a";
\* otherwise min, mean and max are those of exactly the numbers of the
\* column, and the standard deviation is the root of their mean squared
\* deviation with the divisor count (population), each to three decimals.
C19_StatsOverExactlyTheNumericEntries ==
    StatsRan =>
        LET r == stats[1]
            n == Cardinality(NumericAt)
            total == PowerSum(NumericAt, 1)
            squares == PowerSum(NumericAt, 2)
        IN  IF n = 0
            THEN \A f \in {"min", "avg", "max", "std"} : r[f] = NotAvailable
            ELSE /\ \A f \in {"min", "avg", "max", "std"} : r[f].k = "f3"
                 /\ \E i \in NumericAt :
                       /\ r.min.v = Milli * series[i].v
                       /\ \A j \in NumericAt : series[i].v <= series[j].v
                 /\ \E i \in NumericAt :
                       /\ r.max.v = Milli * series[i].v
                       /\ \A j \in NumericAt : series[j].v <= series[i].v
                 /\ NearestMilli(r.avg.v, total, n)
                 /\ NearestMilliRoot(r.std.v, n * squares - total * total, n * n)

\* The example of the specification: ["1.0", "bad", "3.0", missing] gives
\* min 1.000, mean 2.000, max 3.000 and std 1.000.
C19_Witness ==
    /\ series = <<NumText(1), BadText, NumText(3), NA>>
    /\ stats = <<[min |-> F3(1000), avg |-> F3(2000), max |-> F3(3000),
                  std |-> F3(1000)]>>

(***************************************************************************)
(* Properties of the serial ingest (checked under SpecIngest).             *)
(***************************************************************************)
\* The lines readline() has returned so far, by number.
Received == 1..serial_port.pos

ReceivedLine(i) == serial_port.lines[i]

IsTempRecord(line) == line.k = "json" /\ line.sample.type = "temp"

\* The rows this run has stored (the database may hold a row of an earlier
\* run, which no line of this run produces).
StoredRows ==
    IF temp_samples # <<>> /\ temp_samples[1] = OldRow
    THEN Tail(temp_samples) ELSE temp_samples

\* The lines at which the database refused the INSERT.
Refused == {e.line : e \in {x \in Range(stderr) : x.exc = "sqlite3.OperationalError"}}

\* The received lines that are "temp" records, in the order received (those
\* at which the database itself failed set aside).
RECURSIVE TempLinesUpTo(_)
TempLinesUpTo(n) ==
    IF n = 0 THEN <<>>
    ELSE TempLinesUpTo(n - 1)
         \o (IF IsTempRecord(ReceivedLine(n)) /\ n \notin Refused
             THEN <<n>> ELSE <<>>)

\* The receipt times are the host's: none is later than the host's clock and
\* none earlier than that of the row stored before.
HostReceiptTimes ==
    /\ \A k \in DOMAIN StoredRows : StoredRows[k].received_epoch \in 0..clock
    /\ \A k \in DOMAIN StoredRows :
          k > 1 => StoredRows[k - 1].received_epoch <= StoredRows[k].received_epoch

\* The members of a record that reach the table as they are sent.
SameSample(row, sample) ==
    /\ sample.node.k # "na" => row.node_id = sample.node
    /\ sample.seq.k \in NumKinds => row.seq = Num(sample.seq.v)
    /\ sample.ts.k \in NumKinds => row.ts_epoch = Num(sample.ts.v)

\* C20 as stated: the rows stored are, one for one and in the order received,
\* the received lines that are JSON records of type "temp" (so no other line
\* causes an insert), each with a receipt time of the host.  A failure of the
\* database itself is not held against the statement.
C20_RowIffTempRecord ==
    LET temps == TempLinesUpTo(serial_port.pos)
    IN  /\ Len(StoredRows) = Len(temps)
        /\ \A k \in DOMAIN temps :
              k \in DOMAIN StoredRows
                 => SameSample(StoredRows[k], ReceivedLine(temps[k]).sample)
        /\ HostReceiptTimes

\* The numeric members of a record convert (absent, a number or a numeric
\* string) and its node is not null.
Storable(sample) ==
    /\ \A key \in {"ts", "seq", "temp_c", "raw_c", "r_ohm"} :
          sample[key].k \in {"na"} \cup NumKinds
    /\ sample.node.k # "null"

RECURSIVE StoredLinesUpTo(_)
StoredLinesUpTo(n) ==
    IF n = 0 THEN <<>>
    ELSE StoredLinesUpTo(n - 1)
         \o (IF /\ IsTempRecord(ReceivedLine(n))
                /\ Storable(ReceivedLine(n).sample)
                /\ n \notin Refused
             THEN <<n>> ELSE <<>>)

\* C20 (amended): the rows stored are, one for one and in the order received,
\* the received "temp" records whose insert raised nothing (the numeric
\* members convert, the node is not null, the database took the row), each
\* with a receipt time of the host; every other line stores nothing.
C20_RowIffTempRecordStored ==
    LET kept == StoredLinesUpTo(serial_port.pos)
    IN  /\ Len(StoredRows) = Len(kept)
        /\ \A k \in DOMAIN kept :
              k \in DOMAIN StoredRows
                 => SameSample(StoredRows[k], ReceivedLine(kept[k]).sample)
        /\ HostReceiptTimes

\* A "temp" record with a non-numeric ts was received and skipped, a sound
\* one before or after it was stored.
C20_Witness ==
    /\ \E i \in Received :
          /\ IsTempRecord(ReceivedLine(i))
          /\ ReceivedLine(i).sample.ts = BadText
          /\ \E e \in Range(stderr) : e.line = i /\ e.exc = "ValueError"
    /\ \E i \in Received : ReceivedLine(i) = Json(TempRecord(1))
    /\ Len(StoredRows) = 1
    /\ StoredRows[1].node_id = NodeId(1)
    /\ StoredRows[1].received_epoch > 0

(***************************************************************************)
(* Properties of the file selection (checked under Spec).                  *)
(***************************************************************************)
ActionButtons ==
    IF app = "pdf" THEN {"plot_btn", "save_trim_btn", "pdf_btn"}
    ELSE {"plot_btn", "save_trim_btn"}

Enabled(b) == buttons[b] = Normal

LoadErrorShown ==
    /\ last.op = "select_files"
    /\ last.box # NoBox
    /\ last.box[1].title = "Load Error"

\* The file label tells of files that are not the ones selected last.
StaleFileLabel ==
    \/ file_label.text = "file(s) selected" /\ file_label.n # Len(selected_files)
    \/ file_label.text = "file names" /\ file_label.files # selected_files

\* A step of select_files whose dialog was cancelled changes nothing.
CancelChangesNothing == (dialog = <<>> /\ SelectFiles) => UNCHANGED vars

ButtonsIffLoaded == \A b \in ActionButtons : Enabled(b) <=> loaded # None

NothingLeftOfEarlierLoad ==
    LoadErrorShown =>
        /\ \A b \in ActionButtons : ~Enabled(b)
        /\ loaded = None
        /\ ~StaleFileLabel

\* C21: in either tool the action buttons are enabled exactly when a dataset
\* is loaded; after a load that failed no action button is enabled, no
\* dataset is loaded and the file label does not tell of the files of an
\* earlier load; and a cancelled file dialog changes nothing.
C21_ButtonsEnabledIffLoaded ==
    /\ [](ButtonsIffLoaded /\ NothingLeftOfEarlierLoad)
    /\ [][CancelChangesNothing]_vars

(***************************************************************************)
(* Properties of the error handling of the serial ingest (checked under    *)
(* SpecIngestFair).                                                        *)
(***************************************************************************)
\* The line the next turn of the loop reads.
NextLine == ReceivedLine(serial_port.pos + 1)

\* A line that fails to parse or to store.
Malformed(line) ==
    \/ line.k = "badjson"
    \/ IsTempRecord(line) /\ ~Storable(line.sample)

\* A turn of the loop on a failing line (malformed JSON, a member that does
\* not convert, a database that refuses) reports it, stores nothing, changes
\* no stored row and leaves the loop running.
FailureReportedAndSkipped ==
    (MainLoop /\ (Malformed(NextLine) \/ (serial_port.pos + 1) \in Refused'))
        => /\ Len(stderr') = Len(stderr) + 1
           /\ stderr'[Len(stderr')].line = serial_port.pos + 1
           /\ temp_samples' = temp_samples
           /\ listening'

\* Stored rows are never changed or removed.
StoredRowsStay ==
    /\ Len(temp_samples') >= Len(temp_samples)
    /\ \A k \in DOMAIN temp_samples : temp_samples'[k] = temp_samples[k]

\* The loop is left by a keyboard interrupt and by nothing else.
EndsOnlyOnInterrupt == (listening /\ ~listening') => KeyboardInterrupt

\* The i-th line of the stream is a well-formed "temp" record.
WellFormedAt(i) ==
    /\ i \in DOMAIN serial_port.lines
    /\ IsTempRecord(serial_port.lines[i])
    /\ Storable(serial_port.lines[i].sample)

\* The i-th line has its row, or the database refused it.
SettledAt(i) ==
    /\ i \in Received
    /\ \/ i \in Refused
       \/ \E k \in DOMAIN StoredLinesUpTo(serial_port.pos) :
             /\ StoredLinesUpTo(serial_port.pos)[k] = i
             /\ k \in DOMAIN StoredRows
             /\ SameSample(StoredRows[k], serial_port.lines[i].sample)

\* Whatever failed before it, a well-formed "temp" record is stored in the
\* end, unless the loop is left first.
LaterRecordsStored ==
    \A i \in 1..MaxLines : WellFormedAt(i) ~> (SettledAt(i) \/ ~listening)

\* C22: a line that fails to parse or store is reported and skipped, the loop
\* goes on and the rows already stored stay as they are; every later
\* well-formed "temp" record is still stored; and the loop ends only on a
\* keyboard interrupt.
C22_FailuresSkippedLoopEndsOnlyOnInterrupt ==
    /\ [][FailureReportedAndSkipped /\ StoredRowsStay /\ EndsOnlyOnInterrupt]_vars
    /\ LaterRecordsStored

====
